---- MODULE Spec2Model ----
(***************************************************************************)
(* CFSReader: the serial synchronisation controller (SerialController in   *)
(* src/src/serial_controller.py) driven by the viewer's controlling (GUI)  *)
(* thread (src/main.py), together with the daemon worker threads that run  *)
(* _loop_send_worker.                                                      *)
(*                                                                         *)
(* Numbers: max/min are integers 0..100.  freq and decline_ratio are the   *)
(* slider values of main.py (hundredths): freq = 80 stands for the Python  *)
(* float 0.80, decline_ratio = 45 for 0.45.  Quotients of these are exact  *)
(* rationals in the model.                                                 *)
(*                                                                         *)
(* The waveform functions of src/src/heatmap.py (generate_sawtooth_points, *)
(* draw_sawtooth_waves, merge_curve_points) and linear_map are modelled as *)
(* operators over rationals, the period of a wave with the rounding error  *)
(* of its float division, and are exercised by specifications of their own *)
(* (SpecGen, SpecPeriods, SpecDraw, SpecMerge, SpecMap), whose Init draws  *)
(* the arguments.                                                          *)
(***************************************************************************)
EXTENDS Integers, Sequences, FiniteSets, TLC

\* ------------------------------------------------------------------ bounds
MaxWorkers == 2      \* worker threads spawned in one behaviour
MaxWire    == 3      \* command lines written to the serial port in one behaviour

\* ------------------------------------------------------- document contents
NoEntry == [max |-> -1, min |-> -1, freq |-> -1, decline_ratio |-> -1]

P1 == [max |-> 100, min |-> 0, freq |-> 100, decline_ratio |-> 25]
P2 == [max |-> 80, min |-> 20, freq |-> 200, decline_ratio |-> 25]

\* page ids that new_page is called with: "" is the emergency stop, "p3" is
\* an image without an entry in the document
Pages == {"", "p1", "p2", "p3"}

\* the document loaded at comic selection
InitialCfs == [p \in Pages |-> IF p = "p1" THEN P1 ELSE IF p = "p2" THEN P2 ELSE NoEntry]

\* the empty document {}
EmptyCfs == [p \in Pages |-> NoEntry]

\* ------------------------------------------------------------ file system
\* A path holds no file, a file that cannot be opened, text that is not JSON
\* (an empty or half-written file included) or a JSON value. A JSON value is a
\* document, or JsonArray, a value whose top level is a list.
NoPath == ""                 \* None (or an empty path)
CfsPath == "a.cfs"           \* the document of the comic selected at start
Paths == {"a.cfs", "b.cfs", "c.json"}
JsonArray == ("[" :> NoEntry)
Absent == [kind |-> "absent", value |-> EmptyCfs]
Unreadable == [kind |-> "unreadable", value |-> EmptyCfs]
NotJson == [kind |-> "text", value |-> EmptyCfs]
Json(v) == [kind |-> "json", value |-> v]
EndsWithCfs(path) == path \in {"a.cfs", "b.cfs"}       \* path.endswith('.cfs')

\* ------------------------------------------------------------ serial port
NoPort == ""                 \* None (or an empty name)
NoBaudrate == 0              \* None
DefaultBaudrate == 115200
EnvPort == "COM1"            \* the port name found in the environment file
Ports == {"COM1", "COM2"}
Baudrates == {9600, DefaultBaudrate}
NoSerial == [port |-> NoPort, baudrate |-> NoBaudrate, is_open |-> FALSE]
NoResult == [op |-> "", port |-> NoPort, baudrate |-> NoBaudrate, value |-> FALSE]

\* --------------------------------------------------------- function calls
NoArgs == [op |-> ""]
NoValue == [op |-> ""]
NoDraw == [op |-> ""]

\* ---------------------------------------------------------------- threads
Workers == 1..MaxWorkers

NoMessage == [pos |-> -1, dur |-> -1]
NoSleep == <<0, 0>>

\* a thread object that has not been created yet
NewWorker == [pc |-> "unborn", index |-> 0, msg_type |-> -1, duration |-> -1,
              message |-> NoMessage, sleep |-> NoSleep]

VARIABLES
    is_connected,     \* self.is_connected
    link_ok,          \* environment: ser.write of the open port does not raise
    current_cfs,      \* self.current_cfs (page -> ParameterSet or NoEntry)
    max, min, freq, decline_ratio,   \* the controller's shared parameter fields
    has_stop_event,   \* hasattr(self, '_loop_stop_event')
    loop_stop_event,  \* self._loop_stop_event.is_set()
    loop_thread,      \* self._loop_thread: 0 = no attribute, else the worker's id
    worker,           \* the thread objects created so far, by id
    ctl,              \* the controlling thread: its position and current call
    wire,             \* the command lines written to the port, in write order
    writers,          \* the threads that are inside ser.write
    port,             \* self.port
    baudrate,         \* self.baudrate
    ser,              \* self.ser: NoSerial or the Serial object
    result,           \* the value last returned to a caller that keeps it
    args,             \* the arguments of the function call under examination
    returned,         \* NoValue, or what that call returned
    draw,             \* draw_sawtooth_waves: its locals, NoDraw outside a call
    current_cfs_path, \* self.current_cfs_path
    files,            \* the file system: the content of each path
    ended             \* history: the workers that were alive when a disconnect
                      \* returned success, until the next new_page call

vars == <<is_connected, link_ok, current_cfs, max, min, freq, decline_ratio,
          has_stop_event, loop_stop_event, loop_thread, worker, ctl, wire, writers,
          port, baudrate, ser, result, args, returned, draw, current_cfs_path, files, ended>>

params == <<max, min, freq, decline_ratio>>

\* what no step of the controller's threads assigns
serial == <<port, baudrate, ser>>
calls == <<args, returned, draw>>
store == <<current_cfs_path, files>>
fixed == <<current_cfs, store, serial, result, calls>>
loopvars == <<has_stop_event, loop_stop_event, loop_thread>>

\* ------------------------------------------------------------- linear_map
\* a clamp that lets every value through
ClampNone(lo, v, hi) == v

\* max(lo, min(v, hi)), lines 178 and 180
Clamp(lo, v, hi) == IF v < lo THEN lo ELSE IF v > hi THEN hi ELSE v

\* Python's round() of the rational num/den (den > 0): ties go to the even integer
RoundHalfEven(num, den) ==
    LET q == num \div den
        r == num % den
    IN  IF 2 * r < den THEN q
        ELSE IF 2 * r > den THEN q + 1
        ELSE IF q % 2 = 0 THEN q ELSE q + 1

linear_map(value, in_min, in_max, out_min, out_max) ==
    IF in_min = in_max THEN value
    ELSE LET v == Clamp(in_min, value, in_max)
             den == in_max - in_min
             num == (v - in_min) * (out_max - out_min) + out_min * den
         IN  Clamp(out_min, RoundHalfEven(num, den), out_max)

LinearMapDefault(value) == linear_map(value, 0, 100, 0, 9999)

\* int(duration * 1000 / self.freq) for duration and freq in hundredths
DurationMs(duration, f) == (duration * 1000) \div f

\* ----------------------------------------------------------- message text
DigitChars == <<"0", "1", "2", "3", "4", "5", "6", "7", "8", "9">>

\* str(n) of an integer n >= 0, as the f-string of line 162 formats it
RECURSIVE Str(_)
Str(n) == IF n < 10 THEN <<DigitChars[n + 1]>>
          ELSE Str(n \div 10) \o <<DigitChars[(n % 10) + 1]>>

\* line 162: f"L0{position}I{duration}\n", character by character
PositionText(pos, dur) == <<"L", "0">> \o Str(pos) \o <<"I">> \o Str(dur) \o <<"\n">>

\* ---------------------------------------------------------- wire contents
\* A line on the wire carries its text (cmd, pos, dur) and, for reference, the
\* session it belongs to: the worker that wrote a position command (with half,
\* the parity of its index), or the worker object that a DSTOP was written for.
Half(index) == IF index % 2 = 0 THEN "max" ELSE "min"
PosCmd(w, index, message) ==
    [cmd |-> "L0", session |-> w, half |-> Half(index),
     pos |-> message.pos, dur |-> message.dur]
StopCmd(w) == [cmd |-> "DSTOP", session |-> w, half |-> "", pos |-> -1, dur |-> -1]

IsAlive(w) == worker[w].pc \notin {"unborn", "done"}

\* ------------------------------------------------------------------- Init
Idle == [pc |-> "idle", page |-> ""]

\* the controller after __init__ (lines 10-23), all threads at rest
Boot ==
    /\ is_connected = FALSE
    /\ link_ok = TRUE
    /\ max = 100
    /\ min = 100
    /\ freq = 1
    /\ decline_ratio = 50
    /\ has_stop_event = FALSE
    /\ loop_stop_event = FALSE
    /\ loop_thread = 0
    /\ worker = [w \in Workers |-> NewWorker]
    /\ ctl = Idle
    /\ wire = <<>>
    /\ writers = {}
    /\ baudrate = DefaultBaudrate
    /\ ser = NoSerial
    /\ result = NoResult
    /\ ended = {}

\* no function is examined on its own
NoCall ==
    /\ args = NoArgs
    /\ returned = NoValue
    /\ draw = NoDraw

\* main.py, lines 43-46: the port name comes from the environment file
\* main.py line 377: the document was loaded from CfsPath
Loaded(document) ==
    /\ current_cfs = document
    /\ current_cfs_path = CfsPath
    /\ files = [p \in Paths |-> IF p = CfsPath THEN Json(document) ELSE Absent]

Started ==
    /\ Boot
    /\ port = EnvPort
    /\ Loaded(InitialCfs)

Init ==
    /\ Started
    /\ NoCall

\* a behaviour is followed until MaxWire lines have been written to the port
Open == Len(wire) < MaxWire

\* ------------------------------------------------------------- send_data
\* send_data without its is_connected test
send_data_enter_unguarded(t, line) ==
    /\ link_ok
    /\ wire' = Append(wire, line)
    /\ writers' = writers \cup {t}

\* send_data up to the call of ser.write: the line is on the wire from here on
send_data_enter(t, line) ==
    /\ is_connected
    /\ link_ok
    /\ wire' = Append(wire, line)
    /\ writers' = writers \cup {t}

\* send_data returning False: not connected, or ser.write raised
send_data_fails == ~is_connected \/ ~link_ok

\* ser.write has returned
send_data_exit(t) == writers' = writers \ {t}

\* ------------------------------------------------ the controlling thread
Unset(page) ==
    \/ page = ""
    \/ \A p \in Pages : current_cfs[p] = NoEntry
    \/ current_cfs[page] = NoEntry

\* the page id is kept while new_page still reads the page's entry
At(pc, page) == [pc |-> pc, page |-> page]
Return == Idle

\* new_page, line 184: the branch on the page id
new_page(page) ==
    /\ Open
    /\ ctl.pc = "idle"
    /\ ctl' = IF Unset(page) THEN At("stop_loop_send", "") ELSE At("assign_max", page)
    /\ ended' = {}
    /\ UNCHANGED <<is_connected, link_ok, fixed, params, loopvars, worker, wire, writers>>

\* new_page, lines 187-190: four separate assignments to the shared fields
assign_max ==
    /\ Open
    /\ ctl.pc = "assign_max"
    /\ max' = current_cfs[ctl.page].max
    /\ ctl' = [ctl EXCEPT !.pc = "assign_min"]
    /\ UNCHANGED <<is_connected, link_ok, fixed, ended, min, freq, decline_ratio,
                   loopvars, worker, wire, writers>>

assign_min ==
    /\ Open
    /\ ctl.pc = "assign_min"
    /\ min' = current_cfs[ctl.page].min
    /\ ctl' = [ctl EXCEPT !.pc = "assign_freq"]
    /\ UNCHANGED <<is_connected, link_ok, fixed, ended, max, freq, decline_ratio,
                   loopvars, worker, wire, writers>>

assign_freq ==
    /\ Open
    /\ ctl.pc = "assign_freq"
    /\ freq' = current_cfs[ctl.page].freq
    /\ ctl' = [ctl EXCEPT !.pc = "assign_decline_ratio"]
    /\ UNCHANGED <<is_connected, link_ok, fixed, ended, max, min, decline_ratio,
                   loopvars, worker, wire, writers>>

assign_decline_ratio ==
    /\ Open
    /\ ctl.pc = "assign_decline_ratio"
    /\ decline_ratio' = current_cfs[ctl.page].decline_ratio
    /\ ctl' = At("start_loop_send", "")
    /\ UNCHANGED <<is_connected, link_ok, fixed, ended, max, min, freq,
                   loopvars, worker, wire, writers>>

\* start_loop_send without its is_alive() test
ThreadAliveUnchecked == FALSE

\* line 138: hasattr(self, '_loop_thread') and self._loop_thread and is_alive()
ThreadAlive == loop_thread # 0 /\ IsAlive(loop_thread)

\* start_loop_send, lines 136-143
start_loop_send ==
    /\ Open
    /\ ctl.pc = "start_loop_send"
    /\ IF ~is_connected \/ ThreadAlive
       THEN /\ ctl' = Return
            /\ UNCHANGED <<loopvars, worker>>
       ELSE /\ loop_thread < MaxWorkers
            /\ has_stop_event' = TRUE
            /\ loop_stop_event' = FALSE
            /\ loop_thread' = loop_thread + 1
            /\ worker' = [worker EXCEPT ![loop_thread + 1].pc = "start"]
            /\ ctl' = Return
    /\ UNCHANGED <<is_connected, link_ok, fixed, ended, params, wire, writers>>

\* stop_loop_send, lines 147-149
stop_loop_send ==
    /\ Open
    /\ ctl.pc = "stop_loop_send"
    /\ IF ~has_stop_event
       THEN /\ ctl' = Return
            /\ UNCHANGED loop_stop_event
       ELSE /\ loop_stop_event' = TRUE
            /\ ctl' = [ctl EXCEPT !.pc = "stop_send"]
    /\ UNCHANGED <<is_connected, link_ok, fixed, ended, params, has_stop_event,
                   loop_thread, worker, wire, writers>>

\* stop_loop_send, line 150: send_data("DSTOP\n") up to ser.write
stop_send ==
    /\ Open
    /\ ctl.pc = "stop_send"
    /\ \/ /\ send_data_enter(0, StopCmd(loop_thread))
          /\ ctl' = [ctl EXCEPT !.pc = "stop_write"]
       \/ /\ send_data_fails
          /\ ctl' = Return
          /\ UNCHANGED <<wire, writers>>
    /\ UNCHANGED <<is_connected, link_ok, fixed, ended, params, loopvars, worker>>

\* ser.write of DSTOP returns; stop_loop_send returns True
stop_write ==
    /\ Open
    /\ ctl.pc = "stop_write"
    /\ send_data_exit(0)
    /\ ctl' = Return
    /\ UNCHANGED <<is_connected, link_ok, fixed, ended, params, loopvars, worker, wire>>

\* connect, lines 29-43: the port is opened (serial.Serial may raise)
ConnectOpen(p, b, r) ==
    LET p1 == IF p # NoPort THEN p ELSE port
        b1 == IF b # NoBaudrate THEN b ELSE baudrate
    IN  IF p1 = NoPort
        THEN r = FALSE /\ UNCHANGED <<is_connected, link_ok, serial>>
        ELSE \/ /\ ser' = [port |-> p1, baudrate |-> b1, is_open |-> TRUE]
                /\ port' = p1
                /\ baudrate' = b1
                /\ is_connected' = TRUE
                /\ link_ok' = TRUE
                /\ r = TRUE
             \/ /\ is_connected' = FALSE
                /\ r = FALSE
                /\ UNCHANGED <<link_ok, serial>>

\* connect that opens the port whether or not the controller is connected
ConnectAlways(p, b, r) == ConnectOpen(p, b, r)

\* connect(port, baudrate) returning r, lines 25-43
Connect(p, b, r) ==
    IF is_connected
    THEN r = TRUE /\ UNCHANGED <<is_connected, link_ok, serial>>
    ELSE ConnectOpen(p, b, r)

\* disconnect, lines 49-57: the port is closed (ser.close may raise)
DisconnectClose(r) ==
    \/ /\ ser' = IF ser # NoSerial /\ ser.is_open
                  THEN [ser EXCEPT !.is_open = FALSE] ELSE ser
       /\ is_connected' = FALSE
       /\ r = TRUE
       /\ UNCHANGED <<link_ok, port, baudrate>>
    \/ /\ ser # NoSerial /\ ser.is_open
       /\ r = FALSE
       /\ UNCHANGED <<is_connected, link_ok, serial>>

\* disconnect() returning r, lines 45-57 (ser.close may raise)
Disconnect(r) ==
    IF ~is_connected
    THEN r = TRUE /\ UNCHANGED <<is_connected, link_ok, serial>>
    ELSE DisconnectClose(r)

\* history: a disconnect that closes the connection ends the session of every
\* worker that is alive
EndedBy ==
    IF is_connected /\ ~is_connected' THEN ended \cup {w \in Workers : IsAlive(w)} ELSE ended

\* main.py, line 46: connect() without arguments, the result is not kept
connect ==
    /\ Open
    /\ ctl.pc = "idle"
    /\ ctl' = Return
    /\ \E r \in BOOLEAN : Connect(NoPort, NoBaudrate, r)
    /\ UNCHANGED <<current_cfs, store, ended, result, calls, params, loopvars, worker, wire, writers>>

\* main.py, line 668: disconnect(), the result is not kept
disconnect ==
    /\ Open
    /\ ctl.pc = "idle"
    /\ ctl' = Return
    /\ \E r \in BOOLEAN : Disconnect(r)
    /\ ended' = EndedBy
    /\ UNCHANGED <<current_cfs, store, result, calls, params, loopvars, worker, wire, writers>>

\* what a caller keeps of a call: the arguments it passed and the value returned
Returned(op, p, b, r) == [op |-> op, port |-> p, baudrate |-> b, value |-> r]

\* a caller that passes a port and a baud rate and keeps what connect returns
connect_call(p, b) ==
    /\ ctl.pc = "idle"
    /\ \E r \in BOOLEAN : Connect(p, b, r) /\ result' = Returned("connect", p, b, r)
    /\ UNCHANGED <<current_cfs, store, ended, calls, params, loopvars, worker, ctl, wire, writers>>

\* a caller that keeps what disconnect returns
disconnect_call ==
    /\ ctl.pc = "idle"
    /\ \E r \in BOOLEAN : Disconnect(r) /\ result' = Returned("disconnect", NoPort, NoBaudrate, r)
    /\ ended' = EndedBy
    /\ UNCHANGED <<current_cfs, store, calls, params, loopvars, worker, ctl, wire, writers>>

\* main.py, line 44: the port attribute is assigned before connecting
set_port(p) ==
    /\ ctl.pc = "idle"
    /\ ~is_connected
    /\ port' = p
    /\ UNCHANGED <<is_connected, link_ok, current_cfs, store, ended, baudrate, ser, result, calls, params,
                   loopvars, worker, ctl, wire, writers>>

\* environment: the transport of the open port starts to fail (a step of
\* SpecFault only)
link_fault ==
    /\ Open
    /\ is_connected
    /\ link_ok
    /\ link_ok' = FALSE
    /\ UNCHANGED <<is_connected, fixed, ended, params, loopvars, worker, ctl, wire, writers>>

\* --------------------------------------------- _loop_send_worker, thread w
\* return or break: the function is left, the thread is still alive
Exit(w) == [worker EXCEPT ![w] = [NewWorker EXCEPT !.pc = "exiting"]]

\* lines 155-157: the freq == 0 return, index = 1
worker_start(w) ==
    /\ Open
    /\ worker[w].pc = "start"
    /\ worker' = IF freq = 0 THEN Exit(w)
                 ELSE [worker EXCEPT ![w].pc = "loop_top", ![w].index = 1]
    /\ UNCHANGED <<is_connected, link_ok, fixed, ended, params, loopvars, ctl, wire, writers>>

\* a worker that never sees the flag
StopIsSetIgnored == FALSE

\* lines 158 and 169: self._loop_stop_event.is_set()
StopIsSet == loop_stop_event

\* line 158: while not self._loop_stop_event.is_set() and self.is_connected
\* (the two reads are one step: a flag set after the first read is missed by
\* the steps that follow in the same way)
worker_loop_top(w) ==
    /\ Open
    /\ worker[w].pc = "loop_top"
    /\ worker' = IF ~StopIsSet /\ is_connected
                 THEN [worker EXCEPT ![w].pc = "read_msg_type"]
                 ELSE Exit(w)
    /\ UNCHANGED <<is_connected, link_ok, fixed, ended, params, loopvars, ctl, wire, writers>>

\* the parity test of line 160 inverted
MsgTypeMaxFirst(index) == IF index % 2 = 1 THEN max ELSE min

\* line 160: msg_type = self.max if index % 2 == 0 else self.min
MsgType(index) == IF index % 2 = 0 THEN max ELSE min

worker_read_msg_type(w) ==
    /\ Open
    /\ worker[w].pc = "read_msg_type"
    /\ worker' = [worker EXCEPT ![w].pc = "read_duration",
                                ![w].msg_type = MsgType(worker[w].index)]
    /\ UNCHANGED <<is_connected, link_ok, fixed, ended, params, loopvars, ctl, wire, writers>>

\* line 161: duration = (1 - self.decline_ratio) if index % 2 == 0 else self.decline_ratio
Duration(index) == IF index % 2 = 0 THEN 100 - decline_ratio ELSE decline_ratio

worker_read_duration(w) ==
    /\ Open
    /\ worker[w].pc = "read_duration"
    /\ worker' = [worker EXCEPT ![w].pc = "format",
                                ![w].duration = Duration(worker[w].index)]
    /\ UNCHANGED <<is_connected, link_ok, fixed, ended, params, loopvars, ctl, wire, writers>>

\* line 162: the message; a zero self.freq raises ZeroDivisionError (line 171-173: break)
worker_format(w) ==
    /\ Open
    /\ worker[w].pc = "format"
    /\ worker' = IF freq = 0 THEN Exit(w)
                 ELSE [worker EXCEPT ![w].pc = "send",
                          ![w].msg_type = NewWorker.msg_type,
                          ![w].message = [pos |-> LinearMapDefault(worker[w].msg_type),
                                          dur |-> DurationMs(worker[w].duration, freq)]]
    /\ UNCHANGED <<is_connected, link_ok, fixed, ended, params, loopvars, ctl, wire, writers>>

\* a failed send that goes on with the next pass of the loop
SendFailedContinue(w) == [worker EXCEPT ![w].pc = "loop_top"]

\* line 164: break
SendFailed(w) == Exit(w)

\* lines 163-164: if not self.send_data(message): break
worker_send(w) ==
    /\ Open
    /\ worker[w].pc = "send"
    /\ \/ /\ send_data_enter(w, PosCmd(w, worker[w].index, worker[w].message))
          /\ worker' = [worker EXCEPT ![w].pc = "write"]
       \/ /\ send_data_fails
          /\ worker' = SendFailed(w)
          /\ UNCHANGED <<wire, writers>>
    /\ UNCHANGED <<is_connected, link_ok, fixed, ended, params, loopvars, ctl>>

\* ser.write returns; line 165: time.sleep(duration / self.freq) begins
worker_write(w) ==
    /\ Open
    /\ worker[w].pc = "write"
    /\ send_data_exit(w)
    /\ worker' = IF freq = 0 THEN Exit(w)
                 ELSE [worker EXCEPT ![w].pc = "sleep",
                                     ![w].duration = NewWorker.duration,
                                     ![w].message = NoMessage,
                                     ![w].sleep = <<worker[w].duration, freq>>]
    /\ UNCHANGED <<is_connected, link_ok, fixed, ended, params, loopvars, ctl, wire>>

\* an index that skips a half-cycle
NextIndexSkip(index) == index + 2

\* line 166: index += 1
NextIndex(index) == index + 1

\* the sleep ends; line 166: index += 1; line 169: the stop check
worker_wake(w) ==
    /\ Open
    /\ worker[w].pc = "sleep"
    /\ worker' = IF StopIsSet
                 THEN Exit(w)
                 ELSE [worker EXCEPT ![w] = [NewWorker EXCEPT !.pc = "loop_top",
                                                 !.index = NextIndex(worker[w].index)]]
    /\ UNCHANGED <<is_connected, link_ok, fixed, ended, params, loopvars, ctl, wire, writers>>

\* the thread's run() has returned: is_alive() is False from here on
worker_exit(w) ==
    /\ Open
    /\ worker[w].pc = "exiting"
    /\ worker' = [worker EXCEPT ![w].pc = "done"]
    /\ UNCHANGED <<is_connected, link_ok, fixed, ended, params, loopvars, ctl, wire, writers>>

WorkerStep(w) ==
    \/ worker_start(w)
    \/ worker_loop_top(w)
    \/ worker_read_msg_type(w)
    \/ worker_read_duration(w)
    \/ worker_format(w)
    \/ worker_send(w)
    \/ worker_write(w)
    \/ worker_wake(w)
    \/ worker_exit(w)

Next ==
    \/ \E page \in Pages : new_page(page)
    \/ assign_max
    \/ assign_min
    \/ assign_freq
    \/ assign_decline_ratio
    \/ start_loop_send
    \/ stop_loop_send
    \/ stop_send
    \/ stop_write
    \/ connect
    \/ disconnect
    \/ \E w \in Workers : WorkerStep(w)

Spec == Init /\ [][Next]_vars

\* the same program with a viewer that shows one page with an entry and
\* leaves it again (emergency stop, or a page without an entry)
StopPages == {"", "p1"}
NextStop ==
    \/ \E page \in StopPages : new_page(page)
    \/ assign_max
    \/ assign_min
    \/ assign_freq
    \/ assign_decline_ratio
    \/ start_loop_send
    \/ stop_loop_send
    \/ stop_send
    \/ stop_write
    \/ connect
    \/ disconnect
    \/ \E w \in Workers : WorkerStep(w)

SpecStop == Init /\ [][NextStop]_vars

\* the one-page program with every started thread scheduled again and again (the
\* operating system runs a runnable thread, and time.sleep returns)
SpecFair == Init /\ [][NextStop]_vars /\ \A w \in Workers : WF_vars(WorkerStep(w))

\* the one-page program on a document whose entry has min above max
PSwapped == [max |-> 20, min |-> 80, freq |-> 100, decline_ratio |-> 25]
SwappedCfs == [p \in Pages |-> IF p = "p1" THEN PSwapped ELSE NoEntry]

InitSwapped ==
    /\ Boot
    /\ port = EnvPort
    /\ Loaded(SwappedCfs)
    /\ NoCall

SpecSwapped == InitSwapped /\ [][NextStop]_vars

\* the same program on a document whose second page has freq 0
PZero == [max |-> 80, min |-> 20, freq |-> 0, decline_ratio |-> 25]
ZeroCfs == [p \in Pages |-> IF p = "p1" THEN P1 ELSE IF p = "p2" THEN PZero ELSE NoEntry]

InitZero ==
    /\ Boot
    /\ port = EnvPort
    /\ Loaded(ZeroCfs)
    /\ NoCall

SpecZero == InitZero /\ [][Next]_vars

\* the connection alone: a caller that connects and disconnects in any order,
\* with any port name and baud rate, from any configured port name
InitLink ==
    /\ Boot
    /\ port \in Ports \cup {NoPort}
    /\ Loaded(InitialCfs)
    /\ NoCall

NextLink ==
    \/ \E p \in Ports \cup {NoPort}, b \in Baudrates \cup {NoBaudrate} : connect_call(p, b)
    \/ disconnect_call
    \/ \E p \in Ports \cup {NoPort} : set_port(p)

SpecLink == InitLink /\ [][NextLink]_vars

\* ------------------------------------- load_cfs, save_cfs and export_cfs
\* What a call returned: its name, the path it read or wrote, the returned
\* value and the content of that path before the call.
Called(op, path, value) == [op |-> op, path |-> path, value |-> value, before |-> files[path]]

\* lines 90-104
load_cfs(cfs_path) ==
    /\ IF files[cfs_path].kind = "absent"
       THEN /\ current_cfs' = EmptyCfs
            /\ UNCHANGED current_cfs_path
            /\ returned' = Called("load_cfs", cfs_path, EmptyCfs)
       ELSE IF files[cfs_path].kind = "json"
       THEN /\ current_cfs' = files[cfs_path].value
            /\ current_cfs_path' = cfs_path
            /\ returned' = Called("load_cfs", cfs_path, files[cfs_path].value)
       ELSE /\ current_cfs' = EmptyCfs
            /\ current_cfs_path' = NoPath
            /\ returned' = Called("load_cfs", cfs_path, EmptyCfs)
    /\ UNCHANGED <<ended, is_connected, link_ok, files, serial, result, args, draw, params,
                   loopvars, worker, ctl, wire, writers>>

\* open(path, 'w') and json.dump: the file cannot be opened and stays as it
\* is, or it is emptied by open and then written (ok = TRUE), or the write
\* stops with an error and leaves half of the text (ok = FALSE)
WriteOutcomes == {"open fails", "written", "write fails"}
Written(path, document, outcome) ==
    IF outcome = "open fails" THEN files
    ELSE IF outcome = "written" THEN [files EXCEPT ![path] = Json(document)]
    ELSE [files EXCEPT ![path] = NotJson]
CanHappen(path, outcome) == (outcome = "open fails") <=> (files[path].kind = "unreadable")

\* lines 110-121; output_path is NoPath when the argument is left out
save_cfs(output_path) ==
    LET path == IF output_path # NoPath THEN output_path ELSE current_cfs_path
    IN  /\ IF path = NoPath \/ ~EndsWithCfs(path)
           THEN /\ returned' = [op |-> "save_cfs", path |-> path, value |-> FALSE,
                                before |-> Absent]
                /\ UNCHANGED files
           ELSE \E outcome \in WriteOutcomes :
                   /\ CanHappen(path, outcome)
                   /\ files' = Written(path, current_cfs, outcome)
                   /\ returned' = Called("save_cfs", path, outcome = "written")
        /\ UNCHANGED <<ended, is_connected, link_ok, current_cfs, current_cfs_path, serial, result,
                       args, draw, params, loopvars, worker, ctl, wire, writers>>

\* lines 123-132 (the directory of file_path exists)
export_cfs(cfs_data, file_path) ==
    /\ \E outcome \in WriteOutcomes :
          /\ CanHappen(file_path, outcome)
          /\ files' = Written(file_path, cfs_data, outcome)
          /\ returned' = Called("export_cfs", file_path, outcome = "written")
    /\ UNCHANGED <<ended, is_connected, link_ok, current_cfs, current_cfs_path, serial, result,
                   args, draw, params, loopvars, worker, ctl, wire, writers>>

\* the controller right after __init__ (lines 18-19), with one document on
\* disk, a second path in any condition and a third path without a file
InitFiles ==
    /\ Boot
    /\ port = EnvPort
    /\ NoCall
    /\ current_cfs = EmptyCfs
    /\ current_cfs_path = NoPath
    /\ \E second \in {Absent, Unreadable, NotJson, Json(JsonArray), Json(EmptyCfs)} :
          files = [p \in Paths |-> IF p = CfsPath THEN Json(InitialCfs)
                                   ELSE IF p = "b.cfs" THEN second ELSE Absent]

NextFiles ==
    \/ \E p \in Paths : load_cfs(p)
    \/ \E p \in Paths \cup {NoPath} : save_cfs(p)
    \/ \E p \in Paths : export_cfs(InitialCfs, p)

SpecFiles == InitFiles /\ [][NextFiles]_vars

\* ------------------------------------------------- heatmap.py: arithmetic
\* A float of heatmap.py is <<n, d, en, ed>>: the rational n / d plus the
\* rounding error (en / ed) * ulp it carries, where ulp is smaller than every
\* positive difference of two rationals. Both parts are in lowest terms with
\* d > 0 and ed > 0, so that equal numbers are equal tuples. Only the division
\* of line 33 rounds; the operations after it carry its error along exactly,
\* to first order.
Abs(n) == IF n < 0 THEN 0 - n ELSE n

RECURSIVE GCD(_, _)
GCD(a, b) == IF b = 0 THEN a ELSE GCD(b, a % b)

Norm(n, d) == LET g == GCD(Abs(n), d) IN <<n \div g, d \div g>>

Exact == <<0, 1>>                                  \* no rounding error
R(n) == <<n, 1, 0, 1>>
RAdd(a, b) ==
    Norm(a[1] * b[2] + b[1] * a[2], a[2] * b[2])
        \o Norm(a[3] * b[4] + b[3] * a[4], a[4] * b[4])
RSub(a, b) ==
    Norm(a[1] * b[2] - b[1] * a[2], a[2] * b[2])
        \o Norm(a[3] * b[4] - b[3] * a[4], a[4] * b[4])
RNeg(a) == <<0 - a[1], a[2], 0 - a[3], a[4]>>
\* (a + ea)(b + eb) = a*b + (a*eb + ea*b), to first order
RMul(a, b) ==
    Norm(a[1] * b[1], a[2] * b[2])
        \o (IF a[3] = 0 /\ b[3] = 0 THEN Exact
            ELSE Norm(a[1] * b[3] * a[4] * b[2] + a[3] * b[1] * a[2] * b[4],
                      a[2] * b[4] * a[4] * b[2]))
\* (a + ea) / (b + eb) = a/b + (ea/b - a*eb/b^2), to first order
RDiv(a, b) ==
    (IF b[1] > 0 THEN Norm(a[1] * b[2], a[2] * b[1])
     ELSE Norm(0 - a[1] * b[2], 0 - a[2] * b[1]))
        \o (IF a[3] = 0 /\ b[3] = 0 THEN Exact
            ELSE Norm(a[3] * b[2] * a[2] * b[4] * b[1] - a[1] * b[3] * b[2] * b[2] * a[4],
                      a[4] * a[2] * b[4] * b[1] * b[1]))
RLt(a, b) ==
    \/ a[1] * b[2] < b[1] * a[2]
    \/ a[1] * b[2] = b[1] * a[2] /\ a[3] * b[4] < b[3] * a[4]
RLe(a, b) ==
    \/ a[1] * b[2] < b[1] * a[2]
    \/ a[1] * b[2] = b[1] * a[2] /\ a[3] * b[4] <= b[3] * a[4]
\* math.floor and math.ceil: an integer with an error lies on one side of it
RFloor(a) == IF a[2] = 1 /\ a[3] < 0 THEN a[1] - 1 ELSE a[1] \div a[2]
RCeil(a) == IF a[2] = 1 /\ a[3] > 0 THEN a[1] + 1 ELSE 0 - ((0 - a[1]) \div a[2])
RMod(a, m) == RSub(a, RMul(R(RFloor(RDiv(a, m))), m))   \* a % m for m > 0
\* round() of num/den with the error e: half to even, and a half with an error
\* is no longer a half
RoundWithErr(num, den, e) ==
    IF (2 * num) % den = 0 /\ num % den # 0 /\ e # 0
    THEN IF e > 0 THEN num \div den + 1 ELSE num \div den
    ELSE RoundHalfEven(num, den)
RRound(a) == RoundWithErr(a[1], a[2], a[3])             \* round(a)
RRound2(a) == Norm(RoundWithErr(100 * a[1], a[2], a[3]), 100) \o Exact  \* round(a, 2)
Hundredths(n) == Norm(n, 100) \o Exact                  \* the float n / 100

\* The division a / b of two positive integers that are floats, line 33: the
\* nearest float with a 53-bit significand. Exponent(a, b) is the e with
\* 2^e <= a / b < 2^(e + 1); the remainder of a * 2^(52 - e) by b tells which
\* neighbour is nearer, and the parity of the quotient decides a tie.
RECURSIVE Exponent(_, _)
Exponent(a, b) == IF a < 2 * b THEN 0 ELSE 1 + Exponent(a, 2 * b)

RECURSIVE Pow2Mod(_, _)
Pow2Mod(k, m) == IF k = 0 THEN 1 % m ELSE (2 * Pow2Mod(k - 1, m)) % m

Significand == 53

FloatDiv(a, b) ==
    LET rest2 == ((a % (2 * b)) * Pow2Mod(Significand - 1 - Exponent(a, b), 2 * b)) % (2 * b)
        rest == rest2 % b
        odd == rest2 >= b
    IN  Norm(a, b)
            \o (IF rest = 0 THEN Exact
                ELSE IF 2 * rest < b \/ (2 * rest = b /\ ~odd) THEN <<0 - 1, 1>>
                ELSE <<1, 1>>)

\* ------------------------------------- heatmap.py: generate_sawtooth_points
\* Arguments: start_pos is a float or NoPos (None); max_val and min_val are
\* integers; freq and decline_ratio are in hundredths; total_time is an integer
\* number of milliseconds.
NoPos == <<0, 0>>

\* lines 23-35: the defaults, the swap of min_val > max_val, T and its two parts
Wave(a) ==
    LET T == FloatDiv(100000, a.freq)
        decline_time == RMul(T, Hundredths(a.decline_ratio))
    IN  [start_pos |-> IF a.start_pos = NoPos THEN R(a.max_val) ELSE a.start_pos,
         start_trend |-> a.start_trend,
         max_val |-> IF a.min_val > a.max_val THEN a.min_val ELSE a.max_val,
         min_val |-> IF a.min_val > a.max_val THEN a.max_val ELSE a.min_val,
         T |-> T,
         decline_time |-> decline_time,
         rise_time |-> RSub(T, decline_time),
         decline_ratio |-> a.decline_ratio,
         total_time |-> a.total_time]

\* lines 37-57
value_at_phase(phase, c) ==
    LET ph == IF RLt(phase, R(0)) \/ RLe(c.T, phase) THEN RMod(phase, c.T) ELSE phase
        span == R(c.max_val - c.min_val)
        falling == RSub(R(c.max_val), RMul(span, RDiv(ph, c.decline_time)))
        rising == RAdd(R(c.min_val), RMul(span, RDiv(RSub(ph, c.decline_time), c.rise_time)))
    IN  IF c.decline_time = R(0)
        THEN IF ph = R(0) THEN R(c.max_val) ELSE rising
        ELSE IF c.rise_time = R(0)
        THEN IF RLt(ph, c.decline_time) THEN falling
             ELSE IF ph = c.decline_time THEN R(c.min_val) ELSE R(c.max_val)
        ELSE IF RLt(ph, c.decline_time) THEN falling ELSE rising

\* lines 59-90 (max_val # min_val here, line 27 has returned otherwise)
find_initial_phase(c) ==
    LET span == R(c.max_val - c.min_val)
        t_d == RMul(RDiv(RSub(R(c.max_val), c.start_pos), span), c.decline_time)
        t_r == RAdd(c.decline_time,
                    RMul(RDiv(RSub(c.start_pos, R(c.min_val)), span), c.rise_time))
    IN  IF c.decline_time = R(0)
        THEN IF c.start_pos = R(c.max_val) THEN R(0)
             ELSE RMul(RDiv(RSub(c.start_pos, R(c.min_val)), span), c.rise_time)
        ELSE IF c.rise_time = R(0)
        THEN IF c.start_pos = R(c.min_val) THEN c.decline_time ELSE t_d
        ELSE IF c.start_trend = -1
        THEN IF RLe(R(0), t_d) /\ RLe(t_d, c.decline_time) THEN t_d
             ELSE IF c.start_pos = R(c.max_val) THEN R(0)
             ELSE IF c.start_pos = R(c.min_val) THEN c.decline_time
             ELSE t_d
        ELSE IF RLe(c.decline_time, t_r) /\ RLe(t_r, c.T) THEN t_r
             ELSE IF c.start_pos = R(c.min_val) THEN c.decline_time
             ELSE IF c.start_pos = R(c.max_val) THEN R(0)
             ELSE t_r

Event(t, y) == [t |-> t, y |-> y]

\* lines 99-102 and 107-110: for k in range(k, k_max + 1), the events at
\* k * T + shift with 0 < t <= total_time, all with the value y
RECURSIVE Crossings(_, _, _, _, _)
Crossings(k, k_max, shift, y, c) ==
    IF k > k_max THEN <<>>
    ELSE LET t == RAdd(RMul(R(k), c.T), shift)
         IN  (IF RLt(R(0), t) /\ RLe(t, R(c.total_time)) THEN <<Event(t, R(y))>> ELSE <<>>)
             \o Crossings(k + 1, k_max, shift, y, c)

\* lines 94-115: the event list before it is sorted
Events(c) ==
    LET t_mod0 == find_initial_phase(c)
        from_min == RSub(t_mod0, c.decline_time)
        end_phase == RMod(RAdd(t_mod0, R(c.total_time)), c.T)
    IN  Crossings(RCeil(RDiv(t_mod0, c.T)),
                  RFloor(RDiv(RAdd(R(c.total_time), t_mod0), c.T)),
                  RNeg(t_mod0), c.max_val, c)
        \o Crossings(RCeil(RDiv(from_min, c.T)),
                     RFloor(RDiv(RAdd(R(c.total_time), from_min), c.T)),
                     RNeg(from_min), c.min_val, c)
        \o <<Event(R(0), c.start_pos)>>
        \o <<Event(R(c.total_time), value_at_phase(end_phase, c))>>

\* lines 118-123: the sort key of an event is less than that of another
KeyLess(a, b, ratio) ==
    IF ratio = 0 THEN RLt(a.t, b.t) \/ (a.t = b.t /\ RLt(b.y, a.y))
    ELSE IF ratio = 100 THEN RLt(a.t, b.t) \/ (a.t = b.t /\ RLt(a.y, b.y))
    ELSE RLt(a.t, b.t)

\* list.sort is stable: an event goes behind every event whose key is not greater
Insert(sorted, e, ratio) ==
    LET later == {i \in 1..Len(sorted) : KeyLess(e, sorted[i], ratio)}
        at == IF later = {} THEN Len(sorted) + 1
              ELSE CHOOSE i \in later : \A j \in later : i <= j
    IN  SubSeq(sorted, 1, at - 1) \o <<e>> \o SubSeq(sorted, at, Len(sorted))

RECURSIVE Sorted(_, _)
Sorted(events, ratio) ==
    IF events = <<>> THEN <<>>
    ELSE Insert(Sorted(SubSeq(events, 1, Len(events) - 1), ratio),
                events[Len(events)], ratio)

\* lines 126-130: an event equal to the one kept last is dropped
RECURSIVE Unique(_)
Unique(events) ==
    IF events = <<>> THEN <<>>
    ELSE LET front == Unique(SubSeq(events, 1, Len(events) - 1))
             e == events[Len(events)]
         IN  IF front # <<>> /\ front[Len(front)] = e THEN front ELSE Append(front, e)

\* generate_sawtooth_points, lines 21-136: the dict {"x": ..., "y": ...}
generate_sawtooth_points(a) ==
    LET c == Wave(a)
        unique_events == Unique(Sorted(Events(c), c.decline_ratio))
    IN  IF c.max_val = c.min_val
        THEN [x |-> <<0, a.total_time>>, y |-> <<c.start_pos, c.start_pos>>]
        ELSE [x |-> [i \in 1..Len(unique_events) |-> RRound(unique_events[i].t)],
              y |-> [i \in 1..Len(unique_events) |-> RRound2(unique_events[i].y)]]

\* generate_sawtooth_points on its own: one call, its arguments drawn from
\* ranges with both orders of max_val and min_val, both ends of decline_ratio
\* and total_time from 0 up to MaxSteps steps of GenStep milliseconds
MaxSteps == 4
GenStep == 250
GenVals == {0, 50, 100}
GenStarts == {NoPos} \cup {R(v) : v \in {0, 25, 50, 75, 100}}
GenFreqs == {50, 100, 200}
GenRatios == {0, 25, 50, 100}
GenTimes == {k * GenStep : k \in 0..MaxSteps}
GenArgs ==
    [op : {"generate_sawtooth_points"}, start_pos : GenStarts, start_trend : {-1, 1},
     max_val : GenVals, min_val : GenVals, freq : GenFreqs, decline_ratio : GenRatios,
     total_time : GenTimes]

InitGen ==
    /\ Started
    /\ args \in GenArgs
    /\ returned = NoValue
    /\ draw = NoDraw

generate_call ==
    /\ args.op = "generate_sawtooth_points"
    /\ returned = NoValue
    /\ returned' = [op |-> "generate_sawtooth_points", points |-> generate_sawtooth_points(args)]
    /\ UNCHANGED <<is_connected, link_ok, current_cfs, store, ended, serial, result, args, draw, params,
                   loopvars, worker, ctl, wire, writers>>

SpecGen == InitGen /\ [][generate_call]_vars

\* generate_sawtooth_points over whole periods: the call starts at max_val (or
\* with no start_pos), falls first, has a decline_ratio strictly between 0 and
\* 1 and a total_time of 1 to MaxPeriods periods that is a whole number of
\* milliseconds; the period of freq 3.0 and 6.0 is not a float
MaxPeriods == 3
PeriodFreqs == {50, 100, 200, 300, 600}
PeriodRatios == {25, 50, 75}
PeriodRanges == {<<100, 0>>, <<100, 50>>, <<50, 0>>}
PeriodTimes(f) == {(n * 100000) \div f : n \in {m \in 1..MaxPeriods : (m * 100000) % f = 0}}
PeriodArgs ==
    {a \in [op : {"generate_sawtooth_points"}, start_pos : GenStarts, start_trend : {-1},
            max_val : GenVals, min_val : GenVals, freq : PeriodFreqs,
            decline_ratio : PeriodRatios, total_time : 0..(MaxPeriods * 2000)] :
        /\ <<a.max_val, a.min_val>> \in PeriodRanges
        /\ a.start_pos \in {NoPos, R(a.max_val)}
        /\ a.total_time \in PeriodTimes(a.freq)}

InitPeriods ==
    /\ Started
    /\ args \in PeriodArgs
    /\ returned = NoValue
    /\ draw = NoDraw

SpecPeriods == InitPeriods /\ [][generate_call]_vars

\* ------------------------------------------- heatmap.py: merge_curve_points
\* merged_x[-1] of an empty list raises IndexError
IndexError == [op |-> "IndexError"]
NoPoints == [x |-> <<>>, y |-> <<>>]
Rest(s) == SubSeq(s, 2, Len(s))                         \* s[1:]
Shifted(xs, offset) == [i \in 1..Len(xs) |-> xs[i] + offset]

CopyWithoutFirst(seg) == [x |-> Rest(seg.x), y |-> Rest(seg.y)]

\* lines 147-149: the first segment is copied whole
CopyFirst(seg) == [x |-> seg.x, y |-> seg.y]

\* lines 150-156: a later segment of more than one point goes behind the last
\* merged time, without its first point
AppendLater(merged, seg) ==
    [x |-> merged.x \o Shifted(Rest(seg.x), merged.x[Len(merged.x)]),
     y |-> merged.y \o Rest(seg.y)]

\* lines 144-156: the loop, from segment i on
RECURSIVE MergeFrom(_, _, _)
MergeFrom(merged, segments, i) ==
    IF i > Len(segments) THEN merged
    ELSE IF i = 1 THEN MergeFrom(CopyFirst(segments[i]), segments, i + 1)
    ELSE IF Len(segments[i].x) <= 1 THEN MergeFrom(merged, segments, i + 1)
    ELSE IF merged.x = <<>> THEN IndexError
    ELSE MergeFrom(AppendLater(merged, segments[i]), segments, i + 1)

merge_curve_points(segments) ==
    IF segments = <<>> THEN NoPoints ELSE MergeFrom(NoPoints, segments, 1)

\* merge_curve_points on its own: one call with up to MaxSegments segments of
\* zero to three keypoints
MaxSegments == 3
MergeSegments ==
    {NoPoints,
     [x |-> <<0>>, y |-> <<R(50)>>],
     [x |-> <<0, 3000>>, y |-> <<R(50), R(50)>>],
     [x |-> <<0, 500, 1000>>, y |-> <<R(100), R(0), R(100)>>]}
MergeArgs ==
    [op : {"merge_curve_points"},
     segments : UNION {[1..n -> MergeSegments] : n \in 0..MaxSegments}]

InitMerge ==
    /\ Started
    /\ args \in MergeArgs
    /\ returned = NoValue
    /\ draw = NoDraw

merge_call ==
    /\ args.op = "merge_curve_points"
    /\ returned = NoValue
    /\ returned' = [op |-> "merge_curve_points", points |-> merge_curve_points(args.segments)]
    /\ UNCHANGED <<is_connected, link_ok, current_cfs, store, ended, serial, result, args, draw, params,
                   loopvars, worker, ctl, wire, writers>>

SpecMerge == InitMerge /\ [][merge_call]_vars

\* ------------------------------------------ heatmap.py: draw_sawtooth_waves
SegmentDuration == 3000
InitialPos == 50

\* document entries of the preview: one whose range lies above the initial
\* position, one whose range lies below the first one's
DrawA == [max |-> 100, min |-> 60, freq |-> 100, decline_ratio |-> 50]
DrawB == [max |-> 40, min |-> 0, freq |-> 80, decline_ratio |-> 25]
DrawEntries == {NoEntry, DrawA, DrawB, P1}

\* the documents drawn: the values of up to MaxDrawn pages, in natural key order
MaxDrawn == 3
DrawData == UNION {[1..n -> DrawEntries] : n \in 1..MaxDrawn}

\* lines 198-201: the locals before the loop (i is the next page of the loop)
InitDraw ==
    /\ Started
    /\ args \in [op : {"draw_sawtooth_waves"}, data : DrawData]
    /\ returned = NoValue
    /\ draw = [op |-> "draw_sawtooth_waves", i |-> 1, current_pos |-> R(InitialPos),
               segments |-> <<>>]

\* line 206: the call for one page's entry
PagePoints(entry, current_pos) ==
    generate_sawtooth_points(
        [op |-> "generate_sawtooth_points", start_pos |-> current_pos, start_trend |-> -1,
         max_val |-> entry.max, min_val |-> entry.min, freq |-> entry.freq,
         decline_ratio |-> entry.decline_ratio, total_time |-> SegmentDuration])

FirstValue(points) == points.y[1]

\* line 208: points["y"][-1]
LastValue(points) == points.y[Len(points.y)]

\* lines 202-208: one pass of the loop
draw_page ==
    /\ draw.op = "draw_sawtooth_waves"
    /\ draw.i <= Len(args.data)
    /\ LET entry == args.data[draw.i]
           points == PagePoints(entry, draw.current_pos)
       IN  draw' = IF entry = NoEntry
                   THEN [draw EXCEPT !.i = @ + 1,
                            !.segments = Append(@, [x |-> <<0, SegmentDuration>>,
                                                    y |-> <<draw.current_pos, draw.current_pos>>])]
                   ELSE [draw EXCEPT !.i = @ + 1,
                            !.segments = Append(@, points),
                            !.current_pos = LastValue(points)]
    /\ UNCHANGED <<is_connected, link_ok, current_cfs, store, ended, serial, result, args, returned, params,
                   loopvars, worker, ctl, wire, writers>>

\* line 209: the segments are merged once the loop is over
draw_merge ==
    /\ draw.op = "draw_sawtooth_waves"
    /\ draw.i > Len(args.data)
    /\ returned = NoValue
    /\ returned' = [op |-> "draw_sawtooth_waves", points |-> merge_curve_points(draw.segments)]
    /\ UNCHANGED <<is_connected, link_ok, current_cfs, store, ended, serial, result, args, draw, params,
                   loopvars, worker, ctl, wire, writers>>

NextDraw == draw_page \/ draw_merge

SpecDraw == InitDraw /\ [][NextDraw]_vars

\* linear_map on its own: a caller that maps two integer values with the
\* default ranges, the values drawn from MapOver below 0 to MapOver above 100
MapOver == 5
MapValues == (0 - MapOver)..(100 + MapOver)

InitMap ==
    /\ Started
    /\ args \in [op : {"linear_map"}, v1 : MapValues, v2 : MapValues]
    /\ returned = NoValue
    /\ draw = NoDraw

linear_map_call ==
    /\ args.op = "linear_map"
    /\ returned = NoValue
    /\ returned' = [op |-> "linear_map",
                 r1 |-> LinearMapDefault(args.v1),
                 r2 |-> LinearMapDefault(args.v2)]
    /\ UNCHANGED <<is_connected, link_ok, current_cfs, store, ended, serial, result, args, draw, params,
                   loopvars, worker, ctl, wire, writers>>

SpecMap == InitMap /\ [][linear_map_call]_vars

\* the one-page program on a link whose transport may start to fail
NextFault == NextStop \/ link_fault
SpecFault == Init /\ [][NextFault]_vars

\* ================================================================ claims
\* the lines of one session, as the positions they have on the wire
LinesOf(w) == {i \in 1..Len(wire) : wire[i].cmd = "L0" /\ wire[i].session = w}
SetPages == {p \in Pages : current_cfs[p] # NoEntry}
MinPositions == {LinearMapDefault(current_cfs[p].min) : p \in SetPages}
MaxPositions == {LinearMapDefault(current_cfs[p].max) : p \in SetPages}

\* C1: at most one send-loop worker thread is alive in every reachable state
C1_SingleWorker == Cardinality({w \in Workers : IsAlive(w)}) <= 1

\* start_loop_send is about to run while the worker spawned before is alive
C1_Witness == ctl.pc = "start_loop_send" /\ is_connected /\ ThreadAlive

\* C2: new_page on a set page while a worker is running stops that loop and
\* enters a fresh session: when start_loop_send returns, a new worker has been
\* spawned (its index starts at 1) and the previous one is no longer alive
C2_FreshSession ==
    [][(/\ ctl.pc = "start_loop_send"
        /\ ctl'.pc = "idle"
        /\ is_connected
        /\ ThreadAlive
        /\ ~loop_stop_event)
       => (/\ loop_thread' # loop_thread
           /\ worker'[loop_thread].pc = "done"
           /\ worker'[loop_thread'].pc = "start")]_vars

\* C3: new_page on a set page with the link connected and freq nonzero leaves
\* the driver running: when start_loop_send returns, a worker is alive and is
\* not cancelled
C3_EndsUpRunning ==
    [][(/\ ctl.pc = "start_loop_send"
        /\ ctl'.pc = "idle"
        /\ is_connected
        /\ freq # 0)
       => (ThreadAlive' /\ ~loop_stop_event')]_vars

\* the first line of session w targets a position of first, its second line a
\* position of second
FirstTwo(w, first, second) ==
    LET lines == LinesOf(w)
    IN  \A i \in lines :
            LET n == Cardinality({j \in lines : j < i})
            IN  /\ n = 0 => wire[i].pos \in first
                /\ n = 1 => wire[i].pos \in second

\* C4 as stated: the first position command of a worker targets a max position
\* and its second a min position
C4_MaxFirst ==
    LET mins == MinPositions
        maxs == MaxPositions
    IN  \A w \in Workers : FirstTwo(w, maxs, mins)

\* C4 (amended): the first position command of a worker targets a min position
\* of the document (index 1 is odd) and its second a max position
C4_MinFirst ==
    LET mins == MinPositions
        maxs == MaxPositions
    IN  \A w \in Workers : FirstTwo(w, mins, maxs)

\* a worker has written its first two position commands
C4_Witness == \E w \in Workers : Cardinality(LinesOf(w)) >= 2

\* C5: consecutive position commands of one session alternate between a min
\* target and a max target; no half-cycle is repeated or skipped
C5_Alternation ==
    LET mins == MinPositions
        maxs == MaxPositions
    IN  \A w \in Workers :
            LET lines == LinesOf(w)
            IN  \A i, j \in lines :
                    (i < j /\ ~\E k \in lines : i < k /\ k < j) =>
                        /\ wire[i].half # wire[j].half
                        /\ wire[i].pos \in mins <=> wire[j].pos \in maxs

\* a session of three position commands
C5_Witness == \E w \in Workers : Cardinality(LinesOf(w)) >= 3

DStops(lines) == Cardinality({i \in 1..Len(lines) : lines[i].cmd = "DSTOP"})
SetPagePath == {"assign_max", "assign_min", "assign_freq", "assign_decline_ratio",
                "start_loop_send"}

\* C6: on a connected link a new_page call for an unset page writes exactly
\* one DSTOP (the call goes on to send_data, and send_data appends the line),
\* and a new_page call for a set page writes none
C6_OneStopPerUnsetPage ==
    [][/\ (ctl.pc = "stop_loop_send" /\ ctl' # ctl /\ is_connected)
              => ctl'.pc = "stop_send"
       /\ (ctl.pc = "stop_send" /\ ctl' # ctl /\ is_connected)
              => (DStops(wire') = DStops(wire) + 1 /\ ctl'.pc = "stop_write")
       /\ (ctl.pc = "stop_write" /\ ctl' # ctl)
              => (DStops(wire') = DStops(wire) /\ ctl'.pc = "idle")
       /\ ctl.pc \in SetPagePath => DStops(wire') = DStops(wire)]_vars

\* C7: a new_page call for an unset page returns without having called
\* send_data("DSTOP") only when the link is not connected
C7_StopAlwaysIssued ==
    [][(ctl.pc = "stop_loop_send" /\ ctl'.pc = "idle") => ~is_connected]_vars

\* C8: no position command of a session is on the wire after a DSTOP that
\* was written for that session
C8_NothingAfterStop ==
    \A i, j \in 1..Len(wire) :
        (i < j /\ wire[i].cmd = "DSTOP" /\ wire[j].cmd = "L0")
            => wire[j].session # wire[i].session

\* C9: at most one thread is inside ser.write
C9_SingleWriter == Cardinality(writers) <= 1

\* the two half-cycle commands and sleeps that a ParameterSet p defines
HalfDuration(p, half) == IF half = "max" THEN 100 - p.decline_ratio ELSE p.decline_ratio
HalfTarget(p, half) == IF half = "max" THEN p.max ELSE p.min
FromOneSet(p, line) ==
    /\ line.pos = LinearMapDefault(HalfTarget(p, line.half))
    /\ line.dur = DurationMs(HalfDuration(p, line.half), p.freq)
SleepFromSet(p, half, sleep) ==
    sleep[1] * p.freq = HalfDuration(p, half) * sleep[2]

\* C10: every position command, and the sleep that follows it, derive from one
\* and the same ParameterSet of the document
C10_Snapshot ==
    /\ \A i \in 1..Len(wire) :
          wire[i].cmd = "L0" => \E p \in SetPages : FromOneSet(current_cfs[p], wire[i])
    /\ \A w \in Workers :
          (worker[w].pc = "sleep" /\ LinesOf(w) # {}) =>
              LET i == CHOOSE k \in LinesOf(w) : \A m \in LinesOf(w) : m <= k
              IN  \E p \in SetPages :
                      /\ FromOneSet(current_cfs[p], wire[i])
                      /\ SleepFromSet(current_cfs[p], wire[i].half, worker[w].sleep)


\* C11: a worker whose send of a position command fails leaves the loop at
\* once: its next position is the end of the function, it writes nothing from
\* then on (no further position command, no retry), and no step of a worker
\* ever writes DSTOP.
C11_ExitOnSendFailure ==
    [][\A w \in Workers :
         /\ (worker[w].pc = "send" /\ worker'[w] # worker[w] /\ wire' = wire)
               => worker'[w].pc = "exiting"
         /\ worker[w].pc \in {"exiting", "done"}
               => /\ worker'[w].pc \in {"exiting", "done"}
                  /\ w \notin writers'
                  /\ LinesOf(w)' = LinesOf(w)
         /\ (worker'[w] # worker[w] /\ wire' # wire)
               => /\ wire' = Append(wire, wire'[Len(wire')])
                  /\ wire'[Len(wire')].cmd = "L0"
                  /\ wire'[Len(wire')].session = w]_vars

\* the transport failed under a running session: its worker has left the loop
\* after at least one command, with the port still connected and no stop asked
C11_Witness ==
    /\ loop_thread # 0
    /\ worker[loop_thread].pc = "exiting"
    /\ LinesOf(loop_thread) # {}
    /\ is_connected /\ ~link_ok /\ ~loop_stop_event /\ freq # 0


\* C12: no position command is ever written for a ParameterSet whose freq is
\* 0: no line on the wire carries a target position of such a set, whether the
\* worker started with freq 0 or freq became 0 under a running worker.
ZeroPages == {p \in SetPages : current_cfs[p].freq = 0}
ZeroPositions ==
    UNION {{LinearMapDefault(current_cfs[p].max), LinearMapDefault(current_cfs[p].min)} :
           p \in ZeroPages}
C12_NoCommandForZeroFreq ==
    \A i \in 1..Len(wire) : wire[i].cmd = "L0" => wire[i].pos \notin ZeroPositions


\* C13: once the stop flag of the current worker is set, no call clears or
\* replaces the flag while that worker is alive; every step of the worker
\* brings it nearer to its end (so it finishes at most the one sleep it is in
\* or about to enter, and leaves at the next flag test); and under fair
\* scheduling the worker terminates (as far as the behaviour is followed).
Rank(w) ==
    CASE worker[w].pc = "unborn" -> 10
      [] worker[w].pc = "start" -> 9
      [] worker[w].pc = "loop_top" -> 8
      [] worker[w].pc = "read_msg_type" -> 7
      [] worker[w].pc = "read_duration" -> 6
      [] worker[w].pc = "format" -> 5
      [] worker[w].pc = "send" -> 4
      [] worker[w].pc = "write" -> 3
      [] worker[w].pc = "sleep" -> 2
      [] worker[w].pc = "exiting" -> 1
      [] OTHER -> 0
Cancelled(w) == loop_thread = w /\ loop_stop_event /\ IsAlive(w)
C13_CancelledWorkerStops ==
    /\ [][\A w \in Workers : Cancelled(w) =>
             /\ loop_stop_event' /\ loop_thread' = w
             /\ worker'[w] # worker[w] => Rank(w)' < Rank(w)
             /\ (worker'[w] # worker[w] /\ worker[w].pc \in {"loop_top", "sleep"})
                   => worker'[w].pc = "exiting"]_vars
    /\ \A w \in Workers : Cancelled(w) ~> (~IsAlive(w) \/ ~Open)

\* a worker that was cancelled in its sleep has left the loop
C13_Witness ==
    /\ loop_thread # 0
    /\ loop_stop_event
    /\ worker[loop_thread].pc = "exiting"
    /\ LinesOf(loop_thread) # {}
    /\ is_connected


C15_Idempotent ==
    [][/\ \A p \in Ports \cup {NoPort}, b \in Baudrates \cup {NoBaudrate} :
             (is_connected /\ connect_call(p, b))
                => /\ result' = Returned("connect", p, b, TRUE)
                   /\ UNCHANGED <<is_connected, serial>>
       /\ (~is_connected /\ disconnect_call)
             => /\ result' = Returned("disconnect", NoPort, NoBaudrate, TRUE)
                /\ UNCHANGED <<is_connected, serial>>]_vars

\* connect returned True for a port other than the one the controller is and
\* stays connected to, or disconnect returned True on a controller that never
\* was connected
C15_ConnectAgain ==
    /\ is_connected
    /\ result.op = "connect" /\ result.value
    /\ result.port \notin {NoPort, port}
    /\ result.baudrate \notin {NoBaudrate, baudrate}
C15_DisconnectAgain ==
    /\ ~is_connected
    /\ result.op = "disconnect" /\ result.value
    /\ ser = NoSerial
C15_Witness == C15_ConnectAgain \/ C15_DisconnectAgain


\* C16: every position command has the form L0<pppp>I<dddd>\n, the position
\* being exactly four digits (zero-padded) and the duration a run of digits.
IsDigit(c) == \E k \in 1..Len(DigitChars) : DigitChars[k] = c
WellFormed(t) ==
    /\ Len(t) >= 9
    /\ t[1] = "L" /\ t[2] = "0"
    /\ \A k \in 3..6 : IsDigit(t[k])
    /\ t[7] = "I"
    /\ \A k \in 8..(Len(t) - 1) : IsDigit(t[k])
    /\ t[Len(t)] = "\n"
C16_FourDigitPosition ==
    \A i \in 1..Len(wire) :
        wire[i].cmd = "L0" => WellFormed(PositionText(wire[i].pos, wire[i].dur))


\* C17: with the default ranges linear_map returns a value in 0..9999, returns
\* for v what it returns for v clamped to 0..100, and is monotone: v1 <= v2
\* gives linear_map(v1) <= linear_map(v2).
Clamped0To100(v) == IF v < 0 THEN 0 ELSE IF v > 100 THEN 100 ELSE v
C17_ClampedMonotone ==
    returned.op = "linear_map" =>
        /\ returned.r1 \in 0..9999
        /\ returned.r1 = LinearMapDefault(Clamped0To100(args.v1))
        /\ args.v1 <= args.v2 => returned.r1 <= returned.r2

\* a value below the input range and one above it have been mapped to the two
\* ends of the output range
C17_Witness ==
    /\ returned.op = "linear_map"
    /\ args.v1 < 0 /\ args.v2 > 100
    /\ returned.r1 = 0 /\ returned.r2 = 9999


\* a call with a valid ParameterSet (min <= max, freq > 0, decline_ratio in
\* [0, 1]), a start position within its range and total_time >= 0
ValidCall ==
    /\ args.op = "generate_sawtooth_points"
    /\ args.min_val <= args.max_val
    /\ args.freq > 0
    /\ args.decline_ratio \in 0..100
    /\ args.total_time >= 0
    /\ args.start_pos # NoPos
    /\ RLe(R(args.min_val), args.start_pos) /\ RLe(args.start_pos, R(args.max_val))
Generated == returned.op = "generate_sawtooth_points"

\* C18: for every valid call (total_time = 0 and decline_ratio 0 or 1
\* included) the keypoint times are non-decreasing, the first keypoint is
\* (0, start_pos) and the last keypoint has time total_time.
C18_StartsAndEnds ==
    (Generated /\ ValidCall) =>
        LET p == returned.points
            n == Len(p.x)
        IN  /\ n >= 1 /\ Len(p.y) = n
            /\ \A i \in 1..(n - 1) : p.x[i] <= p.x[i + 1]
            /\ p.x[1] = 0 /\ p.y[1] = args.start_pos
            /\ p.x[n] = args.total_time

\* C19: the last keypoint is (total_time, value_at_phase((t_mod0 + total_time)
\* mod T)) for every decline_ratio in [0, 1], both ends included.
C19_LastKeypoint ==
    (Generated /\ ValidCall /\ args.min_val < args.max_val) =>
        LET p == returned.points
            n == Len(p.x)
            c == Wave(args)
            end_phase == RMod(RAdd(find_initial_phase(c), R(c.total_time)), c.T)
        IN  /\ p.x[n] = args.total_time
            /\ p.y[n] = RRound2(value_at_phase(end_phase, c))


\* C20: every value of a keypoint sequence lies within [min, max] of the
\* ParameterSet it was generated from, for every call of the preview: the
\* first one, which starts at the initial position 50, and those that start at
\* the end value of the page before.
C20_ValuesWithinRange ==
    draw.op = "draw_sawtooth_waves" =>
        \A k \in 1..Len(draw.segments) :
            LET entry == args.data[k]
                y == draw.segments[k].y
            IN  entry # NoEntry =>
                    \A j \in 1..Len(y) : RLe(R(entry.min), y[j]) /\ RLe(y[j], R(entry.max))

\* C21: a call that starts at max_val with a falling trend, an interior
\* decline_ratio d and a total_time of n whole periods T returns exactly the
\* keypoints (0, max), (d*T, min), (T, max), ..., (n*T, max): 2n + 1 of them,
\* none extra and none twice.
WholePeriods == (args.total_time * args.freq) \div 100000
KeypointTime(i) ==
    LET T == Norm(100000, args.freq) \o Exact
    IN  IF i % 2 = 1 THEN RMul(R(i \div 2), T)
        ELSE RAdd(RMul(R(i \div 2 - 1), T), RMul(Hundredths(args.decline_ratio), T))
C21_WholePeriodKeypoints ==
    (Generated /\ args \in PeriodArgs) =>
        returned.points =
            [x |-> [i \in 1..(2 * WholePeriods + 1) |-> RRound(KeypointTime(i))],
             y |-> [i \in 1..(2 * WholePeriods + 1) |->
                        IF i % 2 = 1 THEN R(args.max_val) ELSE R(args.min_val)]]

\* C22: a call with min_val > max_val returns what the call with the two
\* values exchanged returns.
Exchanged == [args EXCEPT !.max_val = args.min_val, !.min_val = args.max_val]
C22_SwapEqualsExchanged ==
    (Generated /\ args.min_val > args.max_val) =>
        returned.points = generate_sawtooth_points(Exchanged)

\* C23: merging three segments at once gives what merging the first two and
\* then the third gives, also when a segment has fewer than 2 points; a merge
\* that raises raises either way.
Merged == returned.op = "merge_curve_points"
MergedInTwoSteps ==
    LET ab == merge_curve_points(<<args.segments[1], args.segments[2]>>)
    IN  IF ab = IndexError THEN IndexError
        ELSE merge_curve_points(<<ab, args.segments[3]>>)
C23_MergeAssociative ==
    (Merged /\ Len(args.segments) = 3) => returned.points = MergedInTwoSteps
C23_Witness ==
    /\ Merged /\ Len(args.segments) = 3
    /\ Len(args.segments[2].x) = 1
    /\ returned.points # IndexError
    /\ Len(returned.points.x) = 5

\* C24: in draw_sawtooth_waves the start value of page i + 1 is the end value
\* of page i, and the point merge_curve_points drops from each later segment
\* is the last point merged before it (same time, same value), for set pages
\* and for unset pages.
Drawn == returned.op = "draw_sawtooth_waves"
StartOf(points) == points.y[1]
EndOf(points) == points.y[Len(points.y)]
MergedBefore(i) == merge_curve_points(SubSeq(draw.segments, 1, i - 1))
C24_NoDiscontinuity ==
    draw.op = "draw_sawtooth_waves" =>
        /\ \A i \in 2..Len(draw.segments) :
              LET seg == draw.segments[i]
                  before == draw.segments[i - 1]
                  merged == MergedBefore(i)
              IN  /\ StartOf(seg) = EndOf(before)
                  /\ Len(seg.x) >= 2
                  /\ merged # IndexError
                  /\ seg.x[1] + merged.x[Len(merged.x)] = merged.x[Len(merged.x)]
                  /\ StartOf(seg) = EndOf(merged)
        /\ draw.segments # <<>> => draw.current_pos = EndOf(draw.segments[Len(draw.segments)])
        /\ Drawn =>
              /\ returned.points # IndexError
              /\ \A j \in 1..(Len(returned.points.x) - 1) :
                    returned.points.x[j] <= returned.points.x[j + 1]
C24_Witness ==
    /\ Drawn
    /\ Len(draw.segments) = 3
    /\ args.data[1] = DrawA /\ args.data[2] = NoEntry /\ args.data[3] = DrawB
    /\ EndOf(draw.segments[1]) # R(InitialPos)

\* C25: load_cfs of a path whose file is absent, cannot be read or does not
\* hold a document (text that is not JSON, or JSON whose top level is not an
\* object) returns the empty document and makes the current document empty.
IsDocument(content) == content.kind = "json" /\ content.value # JsonArray
C25_LoadFallsBackToEmpty ==
    (returned.op = "load_cfs" /\ ~IsDocument(returned.before)) =>
        returned.value = EmptyCfs /\ current_cfs = EmptyCfs

\* C26: when save_cfs or export_cfs returns failure, the content of the
\* target file is what it was before the call.
C26_FailureLeavesFile ==
    (returned.op \in {"save_cfs", "export_cfs"} /\ returned.path \in Paths /\ ~returned.value) =>
        files[returned.path] = returned.before

\* C29: after a load_cfs call, current_cfs_path is empty or the path of the
\* file current_cfs was loaded from.
C29_PathOfLoadedDocument ==
    returned.op = "load_cfs" =>
        \/ current_cfs_path = NoPath
        \/ /\ current_cfs_path = returned.path
           /\ returned.before.kind = "json"
           /\ current_cfs = returned.before.value

\* C27: for min < max and start_pos in [min, max] the initial phase t_mod0 of
\* find_initial_phase has value_at_phase(t_mod0) = start_pos, for both trends
\* and every decline_ratio in [0, 1]; with an interior ratio and start_pos
\* strictly inside the range, a falling trend gives a t_mod0 in the decline
\* phase and a rising trend one in the rise phase.
C27_InitialPhaseHitsStart ==
    (Generated /\ ValidCall /\ args.min_val < args.max_val) =>
        LET c == Wave(args)
            t_mod0 == find_initial_phase(c)
        IN  /\ value_at_phase(t_mod0, c) = c.start_pos
            /\ (/\ args.decline_ratio \in 1..99
                /\ RLt(R(c.min_val), c.start_pos) /\ RLt(c.start_pos, R(c.max_val))) =>
                   IF c.start_trend = -1
                   THEN RLe(R(0), t_mod0) /\ RLt(t_mod0, c.decline_time)
                   ELSE RLe(c.decline_time, t_mod0) /\ RLt(t_mod0, c.T)

\* C28: for a document entry with min > max, a max half-cycle command never
\* carries a lower position than a min half-cycle command of the same session.
C28_MaxNotBelowMin ==
    \A i, j \in 1..Len(wire) :
        (/\ wire[i].cmd = "L0" /\ wire[j].cmd = "L0"
         /\ wire[i].session = wire[j].session
         /\ wire[i].half = "max" /\ wire[j].half = "min") =>
            wire[i].pos >= wire[j].pos

\* C30: a worker that was running when disconnect() returned writes no
\* position command again before a later new_page call, also when connect()
\* succeeds again in between.
WritesPosition(w) ==
    /\ Len(wire') = Len(wire) + 1
    /\ wire'[Len(wire')].cmd = "L0"
    /\ wire'[Len(wire')].session = w
HasWritten(w) == \E i \in 1..Len(wire) : wire[i].cmd = "L0" /\ wire[i].session = w
C30_DisconnectEndsSession ==
    [][\A w \in ended : HasWritten(w) => ~WritesPosition(w)]_vars

====
